---- MODULE Spec2Model ----
(***************************************************************************)
(* Model of machine_learning/kohonen_som.c: a one-dimensional Kohonen      *)
(* self-organising map.  The program computes on C `double` values; the    *)
(* model computes on IEEE-754 binary64 values with round-to-nearest-even,  *)
(* represented exactly (mantissas are multi-limb naturals, since one       *)
(* binary64 mantissa does not fit TLC's 32-bit integers).                  *)
(***************************************************************************)
EXTENDS Integers, Sequences, FiniteSets, TLC

(***************************************************************************)
(* Natural numbers of arbitrary size: little-endian sequences of 15-bit    *)
(* limbs with no leading zero limb (<<>> is 0).  Every operator evaluates  *)
(* its arguments once (they are bound by a one-element set) before it      *)
(* computes with them.                                                     *)
(***************************************************************************)
Limb(N, i) == IF 1 <= i /\ i <= Len(N) THEN N[i] ELSE 0

\* the index of the last nonzero limb of N, 0 if there is none
TrimLen(N) ==
    IF \A i \in 1..Len(N) : N[i] = 0 THEN 0
    ELSE CHOOSE i \in 1..Len(N) : N[i] # 0 /\ \A j \in (i + 1)..Len(N) : N[j] = 0

Trim(N0) == CHOOSE r \in {SubSeq(N, 1, TrimLen(N)) : N \in {N0}} : TRUE

LimbBitLen(c0) ==
    CHOOSE r \in {CHOOSE n \in 0..15 : c < 2 ^ n /\ (n = 0 \/ 2 ^ (n - 1) <= c)
                  : c \in {c0}} : TRUE

BBitLen(N0) ==
    CHOOSE r \in {IF N = <<>> THEN 0
                  ELSE 15 * (Len(N) - 1) + LimbBitLen(N[Len(N)]) : N \in {N0}} : TRUE

\* the highest limb in which a and b (of one length) differ, 0 if none
CmpIdx(a, b) ==
    IF \A i \in 1..Len(a) : a[i] = b[i] THEN 0
    ELSE CHOOSE i \in 1..Len(a) :
            a[i] # b[i] /\ \A j \in (i + 1)..Len(a) : a[j] = b[j]

CmpAt(a, b, i) == IF i = 0 THEN 0 ELSE IF a[i] < b[i] THEN -1 ELSE 1

BCmp(a0, b0) ==
    CHOOSE r \in {IF Len(a) # Len(b) THEN (IF Len(a) < Len(b) THEN -1 ELSE 1)
                  ELSE CmpAt(a, b, CmpIdx(a, b)) : a \in {a0}, b \in {b0}} : TRUE

\* the carry into limb i of a + b: some lower limb produces one and every
\* limb between passes it on
CarryIn(a, b, i) ==
    \E j \in 1..(i - 1) :
        /\ Limb(a, j) + Limb(b, j) >= 32768
        /\ \A l \in (j + 1)..(i - 1) : Limb(a, l) + Limb(b, l) = 32767

AddLimb(a, b, i) ==
    (Limb(a, i) + Limb(b, i) + (IF CarryIn(a, b, i) THEN 1 ELSE 0)) % 32768

MaxLen(a, b) == IF Len(a) < Len(b) THEN Len(b) ELSE Len(a)

BAdd(a0, b0) ==
    CHOOSE r \in {Trim(<<>> \o [i \in 1..(MaxLen(a, b) + 1) |-> AddLimb(a, b, i)])
                  : a \in {a0}, b \in {b0}} : TRUE

\* the borrow from limb i of a - b
BorrowIn(a, b, i) ==
    \E j \in 1..(i - 1) :
        /\ a[j] < Limb(b, j)
        /\ \A l \in (j + 1)..(i - 1) : a[l] = Limb(b, l)

SubLimb(a, b, i) ==
    (a[i] - Limb(b, i) - (IF BorrowIn(a, b, i) THEN 1 ELSE 0) + 32768) % 32768

\* a - b for a >= b
BSub(a0, b0) ==
    CHOOSE r \in {Trim(<<>> \o [i \in 1..Len(a) |-> SubLimb(a, b, i)])
                  : a \in {a0}, b \in {b0}} : TRUE

RECURSIVE MulSmallFrom(_, _, _, _)
MulSmallFrom(a, c, i, cy) ==
    IF i > Len(a) THEN (IF cy = 0 THEN <<>> ELSE <<cy>>)
    ELSE CHOOSE r \in {<<t % 32768>> \o MulSmallFrom(a, c, i + 1, t \div 32768)
                       : t \in {a[i] * c + cy}} : TRUE

\* a * c for one limb c
BMulSmall(a0, c0) ==
    CHOOSE r \in {IF c = 0 THEN <<>> ELSE MulSmallFrom(a, c, 1, 0)
                  : a \in {a0}, c \in {c0}} : TRUE

RECURSIVE MulFrom(_, _, _)
MulFrom(a, b, i) ==
    IF i > Len(a) THEN <<>>
    ELSE BAdd(BMulSmall(b, a[i]), <<0>> \o MulFrom(a, b, i + 1))

BMul(a0, b0) ==
    CHOOSE r \in {MulFrom(a, b, 1) : a \in {a0}, b \in {b0}} : TRUE

\* a * 2^k
ShlLimbs(d0, r0) ==
    CHOOSE s \in {Trim(<<>> \o [i \in 1..(Len(d) + 1) |->
                     (Limb(d, i) % (2 ^ (15 - r))) * (2 ^ r)
                     + Limb(d, i - 1) \div (2 ^ (15 - r))])
                  : d \in {d0}, r \in {r0}} : TRUE

BShl(a0, k0) ==
    CHOOSE r \in {IF a = <<>> THEN <<>>
                  ELSE [i \in 1..(k \div 15) |-> 0] \o ShlLimbs(a, k % 15)
                  : a \in {a0}, k \in {k0}} : TRUE

ShrLimbs(d0, r0) ==
    CHOOSE s \in {Trim(<<>> \o [i \in 1..Len(d) |->
                     (d[i] \div (2 ^ r)) + (Limb(d, i + 1) % (2 ^ r)) * (2 ^ (15 - r))])
                  : d \in {d0}, r \in {r0}} : TRUE

\* floor(a / 2^k)
BShr(a0, k0) ==
    CHOOSE r \in {IF k \div 15 >= Len(a) THEN <<>>
                  ELSE ShrLimbs(SubSeq(a, k \div 15 + 1, Len(a)), k % 15)
                  : a \in {a0}, k \in {k0}} : TRUE

BOdd(a) == a # <<>> /\ a[1] % 2 = 1

(***************************************************************************)
(* IEEE-754 binary64.  A finite value is (-1)^s * m * 2^e with m < 2^53;   *)
(* it is kept canonical: 2^52 <= m and -1074 <= e <= 971 (normal), or      *)
(* m < 2^52 and e = -1074 (subnormal, zero), so equal values are equal     *)
(* records.  One NaN stands for all NaNs.                                  *)
(***************************************************************************)
DBL_MANT_DIG == 53
DBL_MAX_EXP == 1024
DBL_MIN_EXP == -1021

EMin == DBL_MIN_EXP - DBL_MANT_DIG
EMax == DBL_MAX_EXP - DBL_MANT_DIG

Fin(s, m, e) == [k |-> "fin", s |-> s, m |-> m, e |-> e]
Inf(s) == [k |-> "inf", s |-> s, m |-> <<>>, e |-> 0]
NaN == [k |-> "nan", s |-> 0, m |-> <<>>, e |-> 0]
Zero(s) == Fin(s, <<>>, EMin)

IsFinite(x) == x.k = "fin"
IsZero(x) == x.k = "fin" /\ x.m = <<>>

\* (-1)^s * m * 2^q with m <= 2^53 on the grid of exponent q: overflow gives
\* an infinity.
PackN(s, m, q) == IF q > EMax THEN Inf(s) ELSE Fin(s, m, q)

Pack(s, m0, q) ==
    CHOOSE r \in {IF BBitLen(m) > DBL_MANT_DIG THEN PackN(s, BShr(m, 1), q + 1)
                  ELSE PackN(s, m, q) : m \in {m0}} : TRUE

\* m0 is the value cut to the grid, c0 compares what was cut off with half
\* a grid step: round to nearest, ties to even.
RoundDecide(s, m0, c0, q) ==
    CHOOSE r \in {IF c = 1 \/ (c = 0 /\ BOdd(m)) THEN Pack(s, BAdd(m, <<1>>), q)
                  ELSE Pack(s, m, q) : m \in {m0}, c \in {c0}} : TRUE

\* N has L bits; the result's grid is 2^q, r = q - e bits are cut off.
RoundTo(s, N, e, L, q) ==
    IF q <= e THEN Pack(s, BShl(N, e - q), q)
    ELSE IF q - e > L THEN Zero(s)
    ELSE RoundDecide(s, BShr(N, q - e),
                     BCmp(BSub(N, BShl(BShr(N, q - e), q - e)),
                          BShl(<<1>>, q - e - 1)),
                     q)

\* the exponent of the last mantissa bit of a value of L bits above 2^e
Quantum(e, L) ==
    IF e + L - DBL_MANT_DIG < EMin THEN EMin ELSE e + L - DBL_MANT_DIG

\* The binary64 nearest to (-1)^s * N * 2^e.
RoundPack(s0, N0, e0) ==
    CHOOSE r \in {IF N = <<>> THEN Zero(s)
                  ELSE RoundTo(s, N, e, L, Quantum(e, L))
                  : s \in {s0}, N \in {N0}, e \in {e0}, L \in {BBitLen(N0)}} : TRUE

FNeg(x) == IF x.k = "nan" THEN x ELSE [x EXCEPT !.s = 1 - x.s]

\* (-1)^sa * A * 2^ex + (-1)^sb * Bv * 2^ex, c compares A with Bv
AddMag(sa, A, sb, Bv, ex, c) ==
    IF sa = sb THEN RoundPack(sa, BAdd(A, Bv), ex)
    ELSE IF c = 0 THEN Zero(0)
    ELSE IF c = 1 THEN RoundPack(sa, BSub(A, Bv), ex)
    ELSE RoundPack(sb, BSub(Bv, A), ex)

\* hi + lo for finite nonzero hi, lo with hi.e >= lo.e and d = hi.e - lo.e.
\* A lo more than 60 binary places below hi only decides the rounding
\* direction: one unit 60 places below hi stands for it.
AddAligned(hi, lo, d0) ==
    CHOOSE r \in {AddMag(hi.s, A, lo.s, Bv, hi.e - d, BCmp(A, Bv))
                  : d \in {IF d0 > 60 THEN 60 ELSE d0},
                    A \in {BShl(hi.m, IF d0 > 60 THEN 60 ELSE d0)},
                    Bv \in {IF d0 > 60 THEN <<1>> ELSE lo.m}} : TRUE

AddValues(x, y) ==
    IF x.k = "nan" \/ y.k = "nan" THEN NaN
    ELSE IF x.k = "inf" THEN (IF y.k = "inf" /\ y.s # x.s THEN NaN ELSE x)
    ELSE IF y.k = "inf" THEN y
    ELSE IF x.m = <<>> /\ y.m = <<>> THEN Zero(IF x.s = y.s THEN x.s ELSE 0)
    ELSE IF x.m = <<>> THEN y
    ELSE IF y.m = <<>> THEN x
    ELSE IF x.e >= y.e THEN AddAligned(x, y, x.e - y.e)
    ELSE AddAligned(y, x, y.e - x.e)

\* x + y
FAdd(x0, y0) == CHOOSE r \in {AddValues(x, y) : x \in {x0}, y \in {y0}} : TRUE

\* x - y
FSub(x, y) == FAdd(x, FNeg(y))

MulValues(x, y) ==
    IF x.k = "nan" \/ y.k = "nan" THEN NaN
    ELSE IF x.k = "inf" \/ y.k = "inf"
         THEN (IF IsZero(x) \/ IsZero(y) THEN NaN ELSE Inf((x.s + y.s) % 2))
    ELSE RoundPack((x.s + y.s) % 2, BMul(x.m, y.m), x.e + y.e)

\* x * y
FMul(x0, y0) == CHOOSE r \in {MulValues(x, y) : x \in {x0}, y \in {y0}} : TRUE

\* |x| < |y| for x, y not NaN
MagLess(x, y) ==
    IF x.k = "inf" THEN FALSE
    ELSE IF y.k = "inf" THEN TRUE
    ELSE x.e < y.e \/ (x.e = y.e /\ BCmp(x.m, y.m) = -1)

LessValues(x, y) ==
    IF x.k = "nan" \/ y.k = "nan" THEN FALSE
    ELSE IF IsZero(x) /\ IsZero(y) THEN FALSE
    ELSE IF x.s # y.s THEN x.s = 1
    ELSE IF x.s = 0 THEN MagLess(x, y)
    ELSE MagLess(y, x)

\* x < y (false when either is a NaN; -0 and +0 are equal)
FLess(x0, y0) == CHOOSE r \in {LessValues(x, y) : x \in {x0}, y \in {y0}} : TRUE

EqValues(x, y) ==
    x.k # "nan" /\ y.k # "nan" /\ (x = y \/ (IsZero(x) /\ IsZero(y)))

\* x == y as C compares doubles
FEq(x0, y0) == CHOOSE r \in {EqValues(x, y) : x \in {x0}, y \in {y0}} : TRUE

\* x <= y
FLeq(x0, y0) ==
    CHOOSE r \in {LessValues(x, y) \/ EqValues(x, y) : x \in {x0}, y \in {y0}} : TRUE

(***************************************************************************)
(* The double constants of the program.                                    *)
(***************************************************************************)
\* 2^n for -1022 <= n <= 1023
Pow2Dbl(n) == Fin(0, <<0, 0, 0, 128>>, n - 52)

ZERO == Zero(0)                                     \* 0.f
ONE == Pow2Dbl(0)                                   \* 1.f
MutAlphaStep == Fin(0, <<5243, 3932, 27525, 163>>, -58)
ALPHA_STEP == Fin(0, <<5243, 3932, 27525, 163>>, -59)    \* 0.01
INFINITY == Inf(0)
TEST1_ALPHA_MIN == Fin(0, <<6554, 13107, 26214, 204>>, -56)   \* 0.1
TEST2_ALPHA_MIN == Fin(0, <<5243, 3932, 27525, 163>>, -59)    \* 0.01

(***************************************************************************)
(* C int: 32 bits, two's complement.  An overflowing signed operation is   *)
(* undefined; its outcome is any int.                                      *)
(***************************************************************************)
INT_MAX == 2147483647
INT_MIN == -INT_MAX - 1

\* The values an indeterminate int is drawn from in the model.
AnyInt(n) == {INT_MIN, -1, 0, n - 1, n, INT_MAX}

\* a - b, for b >= 0
IntSub(a, b, n) == IF a < INT_MIN + b THEN AnyInt(n) ELSE {a - b}

\* a + b + 1, for b >= 0
IntAddInc(a, b, n) ==
    IF a > INT_MAX - b \/ a + b > INT_MAX - 1 THEN AnyInt(n) ELSE {a + b + 1}

VARIABLES
    X, W, D,                  \* data set, weights matrix, distance vector
    num_samples, num_features, num_out, alpha_min,
    R, iter, alpha, sample,   \* locals of kohonen_som_tracer
    d_min, d_min_idx, from_node, to_node,   \* locals of update_weights
    pc,
    W0,                       \* history: W on entry of kohonen_som_tracer
    W1,                       \* history: W at the end of the first pass
    Wread,                    \* history: the W the last update_weights read
    order,                    \* history: samples processed in this pass
    used,                     \* history: <<alpha, R>> used in this pass
    task,                     \* workers: steps done by the task of each node
    touched                   \* workers: accesses made in this parallel region

vars == <<X, W, D, num_samples, num_features, num_out, alpha_min, R, iter,
          alpha, sample, d_min, d_min_idx, from_node, to_node, pc,
          W0, W1, Wread, order, used, task, touched>>

(***************************************************************************)
(* get_min_1d: val starts at INFINITY, idx keeps what it held unless some  *)
(* X[i] < val.  Indices are C indices (from 0); X[i] is Xv[i + 1].         *)
(***************************************************************************)
RECURSIVE MutGetMinFrom(_, _, _, _, _)
MutGetMinFrom(Xv, N, i, val, idx) ==
    IF i >= N THEN [val |-> val, idx |-> idx]
    ELSE IF FLeq(Xv[i + 1], val) THEN MutGetMinFrom(Xv, N, i + 1, Xv[i + 1], i)
    ELSE MutGetMinFrom(Xv, N, i + 1, val, idx)

RECURSIVE GetMinFrom(_, _, _, _, _)
GetMinFrom(Xv, N, i, val, idx) ==
    IF i >= N THEN [val |-> val, idx |-> idx]
    ELSE IF FLess(Xv[i + 1], val) THEN GetMinFrom(Xv, N, i + 1, Xv[i + 1], i)
    ELSE GetMinFrom(Xv, N, i + 1, val, idx)

get_min_1d(Xv, N, idx0) == GetMinFrom(Xv, N, 0, INFINITY, idx0)

(***************************************************************************)
(* update_weights                                                          *)
(***************************************************************************)
\* step 1, one output point: D[j] = 0.f; D[j] += (W[j][k] - x[k])^2
Sq(d0) == CHOOSE r \in {FMul(d, d) : d \in {d0}} : TRUE

\* D[j] += (W[j][k] - x[k]) * (W[j][k] - x[k])
Accumulate(d, wk, xk) == FAdd(d, Sq(FSub(wk, xk)))

RECURSIVE DistFrom(_, _, _, _, _)
DistFrom(x, w, k, nf, acc) ==
    IF k >= nf THEN acc
    ELSE DistFrom(x, w, k + 1, nf, Accumulate(acc, w[k + 1], x[k + 1]))

\* the element of D that iteration j of the loop of step 1 works on
MutDistTarget(j) == 0
DistTarget(j) == j

Distance(x, w, nf) == DistFrom(x, w, 0, nf, ZERO)

Distances(x, Wm, no, nf) == <<>> \o [j \in 1..no |-> Distance(x, Wm[j], nf)]

\* step 3b, one feature of one node: W[j][k] += alpha * (x[k] - W[j][k])
MutPull(w, xk, a) == FAdd(w, FMul(a, FSub(w, xk)))
Pull(w, xk, a) == FAdd(w, FMul(a, FSub(xk, w)))

UpdateRow(x, w, a, nf) == [k \in 1..nf |-> Pull(w[k], x[k], a)]

\* step 3a
FromNode(idx, f) == IF 0 > f THEN 0 ELSE f
MutToNode(no, t) == IF no < t + 1 THEN no ELSE t + 1
ToNode(no, t) == IF no < t THEN no ELSE t

\* the nodes the loop of step 3b visits
Window(from, to) == IF to <= from THEN {} ELSE from..(to - 1)

NewWeights(x, Wm, from, to, a, nf) ==
    [j \in DOMAIN Wm |->
        IF from <= j - 1 /\ j - 1 < to THEN UpdateRow(x, Wm[j], a, nf)
        ELSE Wm[j]]

\* d_min_idx is not initialised: when no D[j] < INFINITY, get_min_1d leaves
\* it as it was.  (When some D[j] < INFINITY the old value is overwritten,
\* and one old value stands for all.)
StaleIdx(Dn, no) ==
    IF \E j \in 1..no : FLess(Dn[j], INFINITY) THEN {0} ELSE AnyInt(no)

\* steps 2 and 3a on the distances Dn
FindWindow(Dn, Rr) ==
    \E g \in StaleIdx(Dn, num_out) :
    \E mn \in {get_min_1d(Dn, num_out, g)} :
    \E f \in IntSub(mn.idx, Rr, num_out) :
    \E t \in IntAddInc(mn.idx, Rr, num_out) :
        /\ d_min' = mn.val
        /\ d_min_idx' = mn.idx
        /\ from_node' = FromNode(mn.idx, f)
        /\ to_node' = ToNode(num_out, t)

\* The call update_weights(x, Wm, D, num_out, num_features, a, Rr).
update_weights(x, Wm, a, Rr) ==
    \E Dn \in {Distances(x, Wm, num_out, num_features)} :          \* step 1
        /\ D' = Dn
        /\ FindWindow(Dn, Rr)
        /\ W' = NewWeights(x, Wm, from_node', to_node', a, num_features)
        /\ Wread' = Wm

(***************************************************************************)
(* kohonen_som_tracer                                                      *)
(***************************************************************************)
\* the W handed to update_weights for the current sample
MutInputWeights == IF sample = 0 THEN W ELSE W0
InputWeights == W

\* for (; alpha > alpha_min; ...)
LoopCond == FLess(alpha_min, alpha)

\* if (iter % 10 == 0 && R > 1) R--;
MutDecay(it, r) == IF it % 10 = 0 /\ r > 0 THEN r - 1 ELSE r
MutDecayPhase(it, r) == IF it % 10 = 9 /\ r > 1 THEN r - 1 ELSE r
Decay(it, r) == IF it % 10 = 0 /\ r > 1 THEN r - 1 ELSE r

\* int R = num_out >> 2
InitialR(no) == no \div 4

\* the next sample of the inner loop
NextSample(s) == s + 1

EnterPass ==
    /\ pc = "outer" /\ LoopCond
    /\ pc' = "inner" /\ sample' = 0
    /\ order' = <<>> /\ used' = {}
    /\ UNCHANGED <<X, W, D, num_samples, num_features, num_out, alpha_min, R,
                   iter, alpha, d_min, d_min_idx, from_node, to_node, W0, W1,
                   Wread, task, touched>>

UpdateStep ==
    /\ pc = "inner" /\ sample < num_samples
    /\ update_weights(X[sample + 1], InputWeights, alpha, R)
    /\ sample' = NextSample(sample)
    /\ order' = Append(order, sample)
    /\ used' = used \cup {<<alpha, R>>}
    /\ UNCHANGED <<X, num_samples, num_features, num_out, alpha_min, R, iter,
                   alpha, pc, W0, W1, task, touched>>

EndPass ==
    /\ pc = "inner" /\ sample >= num_samples
    /\ R' = Decay(iter, R)
    /\ alpha' = FSub(alpha, ALPHA_STEP)
    /\ iter' = iter + 1
    /\ pc' = "outer"
    /\ W1' = IF iter = 0 THEN W ELSE W1
    /\ UNCHANGED <<X, W, D, num_samples, num_features, num_out, alpha_min,
                   sample, d_min, d_min_idx, from_node, to_node, W0, Wread,
                   order, used, task, touched>>

Finish ==
    /\ pc = "outer" /\ ~LoopCond
    /\ pc' = "done"
    /\ UNCHANGED <<X, W, D, num_samples, num_features, num_out, alpha_min, R,
                   iter, alpha, sample, d_min, d_min_idx, from_node, to_node,
                   W0, W1, Wread, order, used, task, touched>>

Next == EnterPass \/ UpdateStep \/ EndPass \/ Finish

\* malloc'ed and not yet written
Uninit == [k |-> "uninit", s |-> 0, m |-> <<>>, e |-> 0]

\* The state on entry of kohonen_som_tracer(X, W, ns, nf, no, am), after
\* its declarations.
Entry(Xm, Wm, ns, nf, no, am) ==
    /\ X = Xm /\ W = Wm /\ num_samples = ns /\ num_features = nf
    /\ num_out = no /\ alpha_min = am
    /\ R = InitialR(no) /\ iter = 0 /\ alpha = ONE
    /\ D = [j \in 1..no |-> Uninit]
    /\ sample = 0
    /\ d_min = Uninit /\ d_min_idx = 0 /\ from_node = 0 /\ to_node = 0
    /\ pc = "outer"
    /\ W0 = Wm /\ W1 = Wm /\ Wread = Wm
    /\ order = <<>> /\ used = {}
    /\ task = <<>> /\ touched = {}

(***************************************************************************)
(* Runs of the full schedule, as test1 (alpha_min 0.1) and test2 (0.01)    *)
(* ask for, on maps of up to MaxOut nodes.                                 *)
(***************************************************************************)
MaxOut == 12
MaxSamples == 1

Row(v, nf) == [k \in 1..nf |-> v]

\* rows that take the values a and b in turn
Rows(n, nf, a, b) == [j \in 1..n |-> Row(IF j % 2 = 1 THEN a ELSE b, nf)]

\* num_out >> 2 changes at the multiples of 4: the runs take the sizes at and
\* just below them.
Sizes == {n \in 0..MaxOut : n % 4 \in {0, 3}}

Init ==
    \E no \in Sizes, ns \in 0..MaxSamples,
       am \in {TEST1_ALPHA_MIN, TEST2_ALPHA_MIN} :
        Entry(Rows(ns, 1, Pow2Dbl(-1), ONE), Rows(no, 1, ONE, Pow2Dbl(-2)),
              ns, 1, no, am)

Spec == Init /\ [][Next]_vars

\* The program is sequential: a step that can be taken is taken.
FairSpec == Spec /\ WF_vars(Next)

(***************************************************************************)
(* C1: kohonen_som_tracer terminates, and the number of outer passes it    *)
(* has run when it returns depends on alpha_min alone: 90 passes for       *)
(* alpha_min = 0.1 and 99 passes for alpha_min = 0.01, whatever X, W,      *)
(* num_samples and num_out are.                                            *)
(***************************************************************************)
ExpectedPasses(am) == IF am = TEST1_ALPHA_MIN THEN 90 ELSE 99

C1_PassCount ==
    /\ [](pc = "done" => iter = ExpectedPasses(alpha_min))
    /\ <>(pc = "done")

C1_Witness ==
    /\ pc = "done" /\ alpha_min = TEST1_ALPHA_MIN /\ iter = 90
    /\ num_out >= 1 /\ num_samples >= 1

(***************************************************************************)
(* C2: R never increases from one step to the next and is never negative   *)
(* (num_out >= 0); in a run with num_out >= 4, R is never below 1.         *)
(***************************************************************************)
C2_Radius ==
    /\ [](R >= 0 /\ (num_out >= 4 => R >= 1))
    /\ [][R' <= R]_vars

C2_Witness == num_out >= 8 /\ R = 1 /\ iter >= 11 /\ pc = "inner"

(***************************************************************************)
(* C7: R starts at floor(num_out / 4); it changes only at the end of an    *)
(* outer pass, by exactly -1, and it does so iff that pass's index iter    *)
(* has iter % 10 = 0 and R > 1.  So pass i runs with radius                *)
(* max(1, R0 - ceil(i / 10)) when R0 = floor(num_out / 4) >= 1, and with   *)
(* R0 when R0 <= 1.                                                        *)
(***************************************************************************)
RadiusOfPass(no, i) ==
    IF no \div 4 >= 1
    THEN (IF no \div 4 - (i + 9) \div 10 > 1 THEN no \div 4 - (i + 9) \div 10
          ELSE 1)
    ELSE no \div 4

EndOfPass == pc = "inner" /\ pc' = "outer"

C7_Schedule ==
    /\ [](R = RadiusOfPass(num_out, iter))
    /\ [][/\ R' # R => EndOfPass /\ R' = R - 1
          /\ EndOfPass => (R' = R - 1 <=> iter % 10 = 0 /\ R > 1)]_vars

C7_Witness == num_out >= 12 /\ iter = 11 /\ R = 1 /\ pc = "inner" /\ sample = 1

(***************************************************************************)
(* Short runs: a caller's alpha_min of 0.97 gives three passes (alpha =     *)
(* 1, 0.99, 0.98).  The data sets take ordinary values, values that differ *)
(* by less than one rounding step, and values near the largest double.     *)
(***************************************************************************)
BRIEF_ALPHA_MIN == Fin(0, <<22282, 24903, 10485, 248>>, -53)     \* 0.97

MaxBriefOut == 5
MaxBriefSamples == 2

TINY == Pow2Dbl(-60)
HUGE == Pow2Dbl(1023)
LARGE == Pow2Dbl(1022)

\* <<wa, wb, xa, xb>>: the rows of W take wa and wb in turn, those of X take
\* xa and xb.
BriefData ==
    { <<ONE, Pow2Dbl(-2), Pow2Dbl(-1), ONE>>,
      <<ONE, ONE, TINY, TINY>>,
      <<FNeg(ONE), ONE, FNeg(TINY), ONE>>,
      <<LARGE, FNeg(LARGE), FNeg(LARGE), LARGE>>,
      <<HUGE, ONE, FNeg(HUGE), ONE>> }

InitBrief ==
    \E no \in 1..MaxBriefOut, ns \in 1..MaxBriefSamples, d \in BriefData :
        Entry(Rows(ns, 1, d[3], d[4]), Rows(no, 1, d[1], d[2]), ns, 1, no,
              BRIEF_ALPHA_MIN)

SpecBrief == InitBrief /\ [][Next]_vars

(***************************************************************************)
(* C8: within every outer pass the samples are processed in input order    *)
(* 0, 1, ..., num_samples - 1, each exactly once, all with the one alpha   *)
(* and R of that pass; and every call of update_weights reads W exactly as *)
(* the previous call (of this pass, or the last of the previous pass) left *)
(* it.                                                                     *)
(***************************************************************************)
InOrder(sq) == sq = [i \in 1..Len(sq) |-> i - 1]

CallsUpdate == pc = "inner" /\ sample < num_samples

C8_SampleOrder ==
    /\ [](/\ InOrder(order) /\ Len(order) <= num_samples
          /\ Cardinality(used) <= 1
          /\ (pc = "inner" => Len(order) = sample)
          /\ (pc = "outer" /\ iter > 0 => Len(order) = num_samples))
    /\ [][CallsUpdate => Wread' = W]_vars

C8_Witness ==
    /\ pc = "inner" /\ iter = 1 /\ sample = 2 /\ order = <<0, 1>>
    /\ Wread # W0 /\ W # Wread

(***************************************************************************)
(* C10, as stated: in every reachable state every W[j][k] lies between the *)
(* least and the greatest of the values that the initial W[.][k] and the   *)
(* samples X[.][k] take.                                                   *)
(***************************************************************************)
BoxVals(Wm, k) ==
    {Wm[j][k] : j \in 1..num_out} \cup {X[i][k] : i \in 1..num_samples}

InBox(v, S) == (\E lo \in S : FLeq(lo, v)) /\ (\E hi \in S : FLeq(v, hi))

C10_BoundingBox ==
    \A j \in 1..num_out, k \in 1..num_features : InBox(W[j][k], BoxVals(W0, k))

(***************************************************************************)
(* C10, amended: from the end of the first pass on (alpha < 1), if the     *)
(* weights W1 left by the first pass and the samples are finite and of     *)
(* magnitude at most 2^1022 (so that no difference x[k] - W[j][k]          *)
(* overflows), every W[j][k] lies between the least and the greatest of    *)
(* the values that W1[.][k] and X[.][k] take.                              *)
(***************************************************************************)
Bounded(v) == IsFinite(v) /\ ~MagLess(LARGE, v)

AllBounded(M) == \A i \in DOMAIN M : \A k \in DOMAIN M[i] : Bounded(M[i][k])

C10_BoxAfterFirstPass ==
    (iter >= 1 /\ AllBounded(W1) /\ AllBounded(X)) =>
        \A j \in 1..num_out, k \in 1..num_features :
            InBox(W[j][k], BoxVals(W1, k))

C10_Witness ==
    /\ iter = 2 /\ pc = "inner" /\ sample >= 1
    /\ AllBounded(W1) /\ AllBounded(X)
    /\ \E j \in 1..num_out :
          /\ W[j][1] # W1[j][1]
          /\ \A v \in BoxVals(W1, 1) : W[j][1] # v

(***************************************************************************)
(* Single calls of update_weights, on maps whose rows all hold the value   *)
(* wa except row p, which holds wb, for one sample of value xv, with any   *)
(* of the learning rates 1, 0.99, 0.5 and any radius 0 .. MaxR.            *)
(***************************************************************************)
MaxUpdateOut == 4
MaxR == 2
MaxFeatures == 2

ONE_UP == Fin(0, <<1, 0, 0, 128>>, -52)        \* 1 + 2^-52, the double after 1
NEG_ZERO == Zero(1)

\* <<wa, wb, xv>>: values one rounding step apart, equal values, zeros of
\* both signs, and values whose differences or squares overflow.
UpdateData ==
    ({ONE, ONE_UP} \X {ONE, ONE_UP} \X {ONE, ONE_UP, NEG_ZERO})
    \cup { <<HUGE, LARGE, LARGE>>, <<LARGE, HUGE, LARGE>>,
           <<HUGE, LARGE, FNeg(LARGE)>>, <<HUGE, HUGE, FNeg(HUGE)>>,
           <<NEG_ZERO, ZERO, NEG_ZERO>>, <<NEG_ZERO, ONE, ZERO>> }
UpdateAlphas == {ONE, FSub(ONE, ALPHA_STEP), Pow2Dbl(-1)}

OneOff(n, nf, a, b, p) == [j \in 1..n |-> Row(IF j = p THEN b ELSE a, nf)]

InitUpdate ==
    \E no \in 1..MaxUpdateOut, nf \in 1..MaxFeatures, p \in 1..MaxUpdateOut,
       d \in UpdateData :
        /\ p <= no
        /\ X = <<Row(d[3], nf)>> /\ W = OneOff(no, nf, d[1], d[2], p)
        /\ num_samples = 1 /\ num_features = nf /\ num_out = no
        /\ alpha_min = ZERO /\ R = 0 /\ iter = 0 /\ alpha = ONE
        /\ D = [j \in 1..no |-> Uninit]
        /\ sample = 0
        /\ d_min = Uninit /\ d_min_idx = 0 /\ from_node = 0 /\ to_node = 0
        /\ pc = "call"
        /\ W0 = W /\ W1 = W /\ Wread = W
        /\ order = <<>> /\ used = {}
        /\ task = <<>> /\ touched = {}

CallUpdate ==
    /\ pc = "call"
    /\ \E a \in UpdateAlphas, r \in 0..MaxR :
          /\ update_weights(X[1], W, a, r)
          /\ alpha' = a /\ R' = r
    /\ pc' = "ret"
    /\ UNCHANGED <<X, num_samples, num_features, num_out, alpha_min, iter,
                   sample, W0, W1, order, used, task, touched>>

SpecUpdate == InitUpdate /\ [][CallUpdate]_vars

(***************************************************************************)
(* C3: after one call of update_weights with radius R whose best-matching  *)
(* unit is b = d_min_idx, every row of W with index outside                *)
(* [max(0, b - R), min(num_out, b + R + 1)) is as it was before the call,  *)
(* and the sample is never written.                                        *)
(***************************************************************************)
InClaimedWindow(j, b, r) == j - r <= b /\ b <= j + r

C3_Frame ==
    /\ [](pc = "ret" =>
            \A j \in 0..(num_out - 1) :
                ~InClaimedWindow(j, d_min_idx, R) => W[j + 1] = Wread[j + 1])
    /\ [][X' = X]_vars

C3_Witness ==
    /\ pc = "ret" /\ num_out = 4 /\ R = 1 /\ d_min_idx = 3
    /\ W[1] = Wread[1] /\ W[1] # X[1] /\ W[3] # Wread[3] /\ W[4] # Wread[4]

(***************************************************************************)
(* C5, as stated: after a call with num_out >= 1 and R >= 0, the index of  *)
(* the best-matching unit satisfies 0 <= d_min_idx < num_out and the       *)
(* window satisfies 0 <= from_node <= d_min_idx < to_node <= num_out.      *)
(***************************************************************************)
C5_IndexSafety ==
    pc = "ret" =>
        /\ 0 <= d_min_idx /\ d_min_idx < num_out
        /\ 0 <= from_node /\ from_node <= d_min_idx
        /\ d_min_idx < to_node /\ to_node <= num_out

(***************************************************************************)
(* Exact distances.  Gap(a, b) is |a - b| without rounding, as m * 2^e     *)
(* with a mantissa of any size (infinite when exactly one of a, b is       *)
(* infinite or both are with opposite signs, NaN when a - b is).           *)
(***************************************************************************)
MinOf(a, b) == IF a < b THEN a ELSE b

GapOnGrid(a, b, e) ==
    IF a.m = <<>> THEN Fin(0, b.m, b.e)
    ELSE IF b.m = <<>> THEN Fin(0, a.m, a.e)
    ELSE IF a.s # b.s THEN Fin(0, BAdd(BShl(a.m, a.e - e), BShl(b.m, b.e - e)), e)
    ELSE IF BCmp(BShl(a.m, a.e - e), BShl(b.m, b.e - e)) >= 0
         THEN Fin(0, BSub(BShl(a.m, a.e - e), BShl(b.m, b.e - e)), e)
    ELSE Fin(0, BSub(BShl(b.m, b.e - e), BShl(a.m, a.e - e)), e)

Gap(a0, b0) ==
    CHOOSE r \in {IF a.k = "nan" \/ b.k = "nan" THEN NaN
                  ELSE IF a.k = "inf" \/ b.k = "inf"
                       THEN (IF a = b THEN NaN ELSE Inf(0))
                  ELSE GapOnGrid(a, b, MinOf(a.e, b.e))
                  : a \in {a0}, b \in {b0}} : TRUE

\* g < h for gaps
GapLess(g0, h0) ==
    CHOOSE r \in {IF g.k = "nan" \/ h.k = "nan" \/ g.k = "inf" THEN FALSE
                  ELSE IF h.k = "inf" THEN TRUE
                  ELSE IF g.m = <<>> \/ h.m = <<>> THEN h.m # <<>>
                  ELSE BCmp(BShl(g.m, g.e - MinOf(g.e, h.e)),
                            BShl(h.m, h.e - MinOf(g.e, h.e))) = -1
                  : g \in {g0}, h \in {h0}} : TRUE

Gaps(u, x, nf) == <<>> \o [k \in 1..nf |-> Gap(u[k], x[k])]

RECURSIVE MinExp(_, _)
MinExp(gs, k) ==
    IF k = 1 THEN gs[1].e ELSE MinOf(gs[k].e, MinExp(gs, k - 1))

\* the sum of the squares of the finite gaps gs[1..k], in units of 2^(2 e)
RECURSIVE SumSq(_, _, _)
SumSq(gs, k, e) ==
    IF k = 0 THEN <<>>
    ELSE BAdd(SumSq(gs, k - 1, e),
              BMul(BShl(gs[k].m, gs[k].e - e), BShl(gs[k].m, gs[k].e - e)))

\* sum of gu[k]^2 < sum of gv[k]^2
SumSqLess(gu, gv, nf) ==
    IF \E k \in 1..nf : gu[k].k = "nan" \/ gv[k].k = "nan" THEN FALSE
    ELSE IF \A k \in 1..nf : ~GapLess(gv[k], gu[k])
         THEN \E k \in 1..nf : GapLess(gu[k], gv[k])
    ELSE IF \A k \in 1..nf : ~GapLess(gu[k], gv[k]) THEN FALSE
    ELSE IF \E k \in 1..nf : gu[k].k = "inf" THEN FALSE
    ELSE IF \E k \in 1..nf : gv[k].k = "inf" THEN TRUE
    ELSE BCmp(SumSq(gu, nf, MinOf(MinExp(gu, nf), MinExp(gv, nf))),
              SumSq(gv, nf, MinOf(MinExp(gu, nf), MinExp(gv, nf)))) = -1

\* the squared distance from u to x is less than that from v to x
SqDistLess(u, v, x, nf) == SumSqLess(Gaps(u, x, nf), Gaps(v, x, nf), nf)

RowEq(u, v, nf) == \A k \in 1..nf : FEq(u[k], v[k])

Updated == Window(from_node, to_node)

PulledBelowOne == pc = "ret" /\ FLess(ZERO, alpha) /\ FLess(alpha, ONE)

(***************************************************************************)
(* C6, as stated: after a call with 0 < alpha < 1, every updated node j is *)
(* strictly closer to x (in squared distance) than it was, unless W[j]     *)
(* equalled x, and then W[j] is unchanged.                                 *)
(***************************************************************************)
C6_StrictlyCloser ==
    PulledBelowOne =>
        \A j \in Updated :
            IF RowEq(Wread[j + 1], X[1], num_features)
            THEN RowEq(W[j + 1], Wread[j + 1], num_features)
            ELSE SqDistLess(W[j + 1], Wread[j + 1], X[1], num_features)

(***************************************************************************)
(* C6, amended: after a call with 0 < alpha < 1, for every updated node j  *)
(* for which no difference x[k] - W[j][k] overflows, every new W[j][k]     *)
(* lies between the old W[j][k] and x[k] (both included), so the squared   *)
(* distance to x has not grown; it is strictly smaller iff the update      *)
(* changed W[j], and W[j] = x is left equal to x.                          *)
(***************************************************************************)
NoOverflow(w, x, nf) == \A k \in 1..nf : IsFinite(FSub(x[k], w[k]))

Between(v, a, b) ==
    \/ FLeq(a, v) /\ FLeq(v, b)
    \/ FLeq(b, v) /\ FLeq(v, a)

C6_NoFarther ==
    PulledBelowOne =>
        \A j \in Updated :
            NoOverflow(Wread[j + 1], X[1], num_features) =>
                /\ \A k \in 1..num_features :
                      Between(W[j + 1][k], Wread[j + 1][k], X[1][k])
                /\ ~SqDistLess(Wread[j + 1], W[j + 1], X[1], num_features)
                /\ SqDistLess(W[j + 1], Wread[j + 1], X[1], num_features)
                      <=> ~RowEq(W[j + 1], Wread[j + 1], num_features)
                /\ RowEq(Wread[j + 1], X[1], num_features)
                      => RowEq(W[j + 1], X[1], num_features)

C6_Witness ==
    /\ PulledBelowOne /\ num_features = 2 /\ R = 1
    /\ \E j \in Updated :
          /\ NoOverflow(Wread[j + 1], X[1], num_features)
          /\ SqDistLess(W[j + 1], Wread[j + 1], X[1], num_features)
          /\ ~RowEq(W[j + 1], X[1], num_features)
    /\ \E j \in Updated : RowEq(Wread[j + 1], X[1], num_features)

(***************************************************************************)
(* Single calls of get_min_1d on vectors of up to MaxN values, infinite    *)
(* ones and zeros of both signs among them.                                *)
(***************************************************************************)
MaxN == 4

MinVals == {FNeg(ONE), NEG_ZERO, ZERO, ONE, INFINITY}

InitMin ==
    \E n \in 0..MaxN :
    \E Dv \in [1..n -> MinVals] :
        /\ D = Dv /\ num_out = n
        /\ X = <<>> /\ W = <<>> /\ num_samples = 0 /\ num_features = 0
        /\ alpha_min = ZERO /\ R = 0 /\ iter = 0 /\ alpha = ONE /\ sample = 0
        /\ d_min = Uninit /\ d_min_idx = 0 /\ from_node = 0 /\ to_node = 0
        /\ pc = "min"
        /\ W0 = W /\ W1 = W /\ Wread = W
        /\ order = <<>> /\ used = {}
        /\ task = <<>> /\ touched = {}

\* get_min_1d(D, num_out, &d_min, &d_min_idx)
CallMin ==
    /\ pc = "min"
    /\ \E g \in StaleIdx(D, num_out) :
       \E mn \in {get_min_1d(D, num_out, g)} :
          /\ d_min' = mn.val
          /\ d_min_idx' = mn.idx
    /\ pc' = "found"
    /\ UNCHANGED <<X, W, D, num_samples, num_features, num_out, alpha_min, R,
                   iter, alpha, sample, from_node, to_node, W0, W1, Wread,
                   order, used, task, touched>>

SpecMin == InitMin /\ [][CallMin]_vars

(***************************************************************************)
(* C4: for a vector D of N >= 1 finite values, get_min_1d returns in val   *)
(* a value of D that no value of D is below, and in idx the lowest index   *)
(* that holds it: every earlier value is strictly greater.                 *)
(***************************************************************************)
C4_Minimum ==
    (pc = "found" /\ num_out >= 1 /\ \A i \in 1..num_out : IsFinite(D[i])) =>
        /\ 0 <= d_min_idx /\ d_min_idx < num_out
        /\ d_min = D[d_min_idx + 1]
        /\ \A i \in 1..num_out : FLeq(d_min, D[i])
        /\ \A i \in 1..d_min_idx : FLess(d_min, D[i])

C4_Witness ==
    /\ pc = "found" /\ num_out = 3 /\ \A i \in 1..3 : IsFinite(D[i])
    /\ d_min_idx = 1 /\ FLess(D[2], D[1]) /\ FEq(D[3], D[2])

(***************************************************************************)
(* update_weights with its two per-node loops distributed over workers:    *)
(* one task per node index, the tasks of a loop interleaved in any order   *)
(* and joined at its end, steps 2 and 3a between the two loops.  (As       *)
(* compiled, the two omp for directives bind to no parallel region and the *)
(* loops run on one thread; this is the distribution the directives ask    *)
(* for.)  task[j + 1] counts the statements task j has executed in the     *)
(* current loop, touched collects <<task, "r" or "w", array, index>>.      *)
(***************************************************************************)
MaxParOut == 3

ParData ==
    { <<ONE, Pow2Dbl(-2), Pow2Dbl(-1)>>, <<Pow2Dbl(-2), ONE, ONE>>,
      <<HUGE, HUGE, FNeg(HUGE)>> }

InitPar ==
    \E no \in 1..MaxParOut, nf \in 1..MaxFeatures, r \in 0..MaxR, d \in ParData :
        /\ X = <<Row(d[3], nf)>> /\ W = Rows(no, nf, d[1], d[2])
        /\ num_samples = 1 /\ num_features = nf /\ num_out = no
        /\ alpha_min = ZERO /\ R = r /\ iter = 0 /\ alpha = Pow2Dbl(-1)
        /\ D = [j \in 1..no |-> Uninit]
        /\ sample = 0
        /\ d_min = Uninit /\ d_min_idx = 0 /\ from_node = 0 /\ to_node = 0
        /\ pc = "dist"
        /\ W0 = W /\ W1 = W /\ Wread = W
        /\ order = <<>> /\ used = {}
        /\ task = [j \in 1..no |-> 0] /\ touched = {}

\* step 1, task j: D[j] = 0.f, then one feature after the other
DistStep(j) ==
    /\ pc = "dist" /\ task[j + 1] <= num_features
    /\ D' = [D EXCEPT ![DistTarget(j) + 1] =
                IF task[j + 1] = 0 THEN ZERO
                ELSE Accumulate(@, W[j + 1][task[j + 1]], X[1][task[j + 1]])]
    /\ touched' = touched \cup
          (IF task[j + 1] = 0 THEN {<<j, "w", "D", DistTarget(j)>>}
           ELSE {<<j, "r", "W", <<j, task[j + 1] - 1>>>>,
                 <<j, "r", "x", task[j + 1] - 1>>,
                 <<j, "r", "D", DistTarget(j)>>,
                 <<j, "w", "D", DistTarget(j)>>})
    /\ task' = [task EXCEPT ![j + 1] = @ + 1]
    /\ UNCHANGED <<X, W, num_samples, num_features, num_out, alpha_min, R,
                   iter, alpha, sample, d_min, d_min_idx, from_node, to_node,
                   pc, W0, W1, Wread, order, used>>

\* the join of step 1, then steps 2 and 3a on one thread
JoinDist ==
    /\ pc = "dist" /\ \A j \in 1..num_out : task[j] = num_features + 1
    /\ FindWindow(D, R)
    /\ pc' = "pull"
    /\ task' = [j \in 1..num_out |-> 0] /\ touched' = {}
    /\ UNCHANGED <<X, W, D, num_samples, num_features, num_out, alpha_min, R,
                   iter, alpha, sample, W0, W1, Wread, order, used>>

\* step 3b, task j: W[j][k] += alpha * (x[k] - W[j][k]), one feature after
\* the other
PullStep(j) ==
    /\ pc = "pull" /\ j \in Window(from_node, to_node)
    /\ task[j + 1] < num_features
    /\ W' = [W EXCEPT ![j + 1][task[j + 1] + 1] =
                Pull(@, X[1][task[j + 1] + 1], alpha)]
    /\ touched' = touched \cup {<<j, "r", "W", <<j, task[j + 1]>>>>,
                                <<j, "r", "x", task[j + 1]>>,
                                <<j, "w", "W", <<j, task[j + 1]>>>>}
    /\ task' = [task EXCEPT ![j + 1] = @ + 1]
    /\ UNCHANGED <<X, D, num_samples, num_features, num_out, alpha_min, R,
                   iter, alpha, sample, d_min, d_min_idx, from_node, to_node,
                   pc, W0, W1, Wread, order, used>>

\* the join of step 3b: update_weights returns
JoinPull ==
    /\ pc = "pull"
    /\ \A j \in Window(from_node, to_node) : task[j + 1] = num_features
    /\ pc' = "ret"
    /\ UNCHANGED <<X, W, D, num_samples, num_features, num_out, alpha_min, R,
                   iter, alpha, sample, d_min, d_min_idx, from_node, to_node,
                   W0, W1, Wread, order, used, task, touched>>

NextPar ==
    \/ \E j \in 0..(num_out - 1) : DistStep(j)
    \/ JoinDist
    \/ \E j \in 0..(num_out - 1) : PullStep(j)
    \/ JoinPull

SpecPar == InitPar /\ [][NextPar]_vars

(***************************************************************************)
(* C9: in each of the two loops no two tasks access one element of D or W  *)
(* unless both only read it (x is only read), and under every interleaving *)
(* the loops leave what the sequential loops leave: after step 1 D holds   *)
(* the distances of the sample to the rows of W, steps 2 and 3a see that   *)
(* D, and on return W is the W of the call with the rows of the window     *)
(* pulled towards the sample.                                              *)
(***************************************************************************)
Conflict(a, b) ==
    /\ a[1] # b[1] /\ a[3] = b[3] /\ a[4] = b[4]
    /\ a[2] = "w" \/ b[2] = "w"

SeqD == Distances(X[1], Wread, num_out, num_features)

SeqW == NewWeights(X[1], Wread, from_node, to_node, alpha, num_features)

C9_RaceFree ==
    /\ \A a \in touched, b \in touched : ~Conflict(a, b)
    /\ pc \in {"pull", "ret"} =>
          /\ D = SeqD
          /\ \E g \in StaleIdx(D, num_out) :
                get_min_1d(D, num_out, g) = [val |-> d_min, idx |-> d_min_idx]
    /\ pc = "ret" => W = SeqW

C9_Witness ==
    /\ pc = "ret" /\ num_out = 3 /\ num_features = 2 /\ R = 1
    /\ from_node = 0 /\ to_node = 3
    /\ \A j \in 1..3 : W[j] # Wread[j]
    /\ \E a \in touched, b \in touched : a[1] # b[1] /\ a[2] = "w" /\ b[2] = "w"

====
